---- MODULE Spec2Model ----
(***************************************************************************)
(* Navigation and render model of SystemMonitor (src/ip_display.py).       *)
(*                                                                         *)
(* Two threads touch the SystemMonitor object: the main thread, which runs *)
(* the while-loop of run(), and the RPi.GPIO event thread, which runs the  *)
(* button callbacks registered by setup_buttons() one at a time.  The      *)
(* object has no lock, so the threads interleave between any two attribute *)
(* reads and writes.                                                       *)
(*                                                                         *)
(* Time is counted in whole seconds; `now` is what time.time() returns.    *)
(* The 300 ms bouncetime of add_event_detect is shorter than one second    *)
(* and is not represented: two presses of a button may fall in the same    *)
(* second.  A thread inside time.sleep(n) resumes once n seconds passed.   *)
(* A local whose value is never read again (the operand loaded for a       *)
(* store, current_time after line 314) is set back to its initial value.   *)
(*                                                                         *)
(* run() first opens the display (0x3C = 60, then 0x3D = 61); no button is *)
(* pressed before the display is open.  The process ends when run()        *)
(* returns or raises; Ctrl+C is taken while the main thread is inside the  *)
(* loop.                                                                   *)
(*                                                                         *)
(*   Spec     every attribute read and write is a step of its own          *)
(*   SeqSpec  every callback and every loop iteration runs as one step     *)
(*            (calls made one after the other, nothing in between)         *)
(*   RenderOnlySpec  GPIO_AVAILABLE is false: no callback is registered;   *)
(*            the loop runs undisturbed (no Ctrl+C, no device error) and   *)
(*            is scheduled fairly; an iteration's computation takes no     *)
(*            time next to its one-second sleep                            *)
(***************************************************************************)
EXTENDS Integers, Sequences, FiniteSets

(* ----- bounds ----- *)
MaxTime == 12
MaxCalls == 4
MaxIdleTime == 46

(* ----- program constants ----- *)
total_screens == 4
auto_advance == TRUE
auto_advance_interval == 10
commands ==
    << [label |-> "Restart", command |-> "sudo reboot"],
       [label |-> "Shutdown", command |-> "sudo shutdown -h now"] >>
NumCommands == Len(commands)
LoopSleep == 1
ErrorSleep == 3
PrimaryAddress == 60
FallbackAddress == 61
NoDevice == 0

VARIABLES
    now,                \* the value time.time() returns
    current_screen,     \* self.current_screen
    selected_command,   \* self.selected_command
    last_button_press,  \* self.last_button_press
    rpc,                \* main thread: position in the loop of run()
    current_time,       \* main thread: local current_time
    rload,              \* main thread: self.current_screen loaded at line 313
    drawn,              \* main thread: draw routines called inside this canvas
    hl,                 \* main thread: entries drawn highlighted in this canvas
    rsleep,             \* main thread: seconds of time.sleep(1) still to pass
    device,             \* self.device: NoDevice, or the address of the opened display
    display,            \* the frame the device shows
    cpc,                \* event thread: position in the running callback
    cload,              \* event thread: attribute value loaded by the callback
    cmd,                \* event thread: the entry unpacked at line 96
    csleep,             \* event thread: seconds of time.sleep(3) still to pass
    net,                \* panel reached if every advance and retreat stored so far is counted once
    hist                \* SeqSpec: the calls made so far, in order

nav == <<current_screen, selected_command, last_button_press>>
rvars == <<rpc, current_time, rload, drawn, hl, rsleep, device>>
cvars == <<cpc, cload, cmd, csleep>>
vars == <<now, current_screen, selected_command, last_button_press,
          rpc, current_time, rload, drawn, hl, rsleep, device, display,
          cpc, cload, cmd, csleep, net, hist>>

Screens == 0 .. (total_screens - 1)
CommandIndices == 0 .. (NumCommands - 1)

(* ----- the arithmetic of the handlers ----- *)
\* the advance without the wrap
NextPanelNoWrap(s) == s + 1

NextPanel(s) == (s + 1) % total_screens

PrevPanel(s) == (s - 1) % total_screens

NextCommandIndex(c) == (c + 1) % NumCommands

\* the step back without the wrap
PrevCommandIndexNoWrap(c) == c - 1

PrevCommandIndex(c) == (c - 1) % NumCommands

\* the command screen taken to be number total_screens, not total_screens - 1
OnCommandScreenOneBased(s) == s = total_screens

OnCommandScreen(s) == s = 3

\* the subtraction with its operands swapped
IdleExpiredSwapped(t, pressed) == pressed - t > auto_advance_interval

IdleExpired(t, pressed) == t - pressed > auto_advance_interval

AutoAdvanceDue(s, t, pressed) ==
    auto_advance /\ s # 3 /\ IdleExpired(t, pressed)

Highlighted(i, sel) == i = sel

ScreenRoutine(s) ==
    IF s = 0 THEN {"ip"}
    ELSE IF s = 1 THEN {"cpu"}
    ELSE IF s = 2 THEN {"disk"}
    ELSE IF s = 3 THEN {"command"}
    ELSE {}

Frame(routines, marks) ==
    IF routines = {} THEN [kind |-> "border", marks |-> {}]
    ELSE [kind |-> CHOOSE r \in routines : TRUE, marks |-> marks]

Blank == [kind |-> "blank", marks |-> {}]

\* the entry after the selected one
CommandAtShifted(i) == commands[((i + 1) % NumCommands) + 1]

\* commands[i], for a Python index i (counted from 0)
CommandAt(i) == commands[i + 1]

NoCommand == [label |-> "", command |-> ""]

ExecutingFrame(entry) == [kind |-> "executing", marks |-> {entry.label}]

ErrorFrame == [kind |-> "error", marks |-> {}]

Init ==
    /\ now = 0
    /\ current_screen = 0
    /\ selected_command = 0
    /\ last_button_press = 0
    /\ rpc = "try3C"
    /\ current_time = 0
    /\ rload = 0
    /\ drawn = {}
    /\ hl = {}
    /\ rsleep = 0
    /\ device = NoDevice
    /\ display = Blank
    /\ cpc = "idle"
    /\ cload = 0
    /\ cmd = NoCommand
    /\ csleep = 0
    /\ net = 0
    /\ hist = << >>

\* positions of the main thread inside the try block of lines 306-333
LoopPcs ==
    {"time", "chk_screen", "chk_idle", "load", "store", "stamp",
     "cmp0", "cmp1", "cmp2", "cmp3", "cmd0", "cmd1", "flush", "sleep"}

\* the process has not ended: run() has neither returned nor raised
Running == rpc \notin {"returned", "raised", "exited"}

\* button edges are delivered: the display is open and the process runs
Listening == Running /\ device # NoDevice

(* ----- the clock ----- *)
Remaining(left) == IF left > 0 THEN left - 1 ELSE 0

Tick(limit) ==
    /\ Running
    /\ now < limit
    /\ now' = now + 1
    /\ rsleep' = Remaining(rsleep)
    /\ csleep' = Remaining(csleep)
    /\ UNCHANGED <<device, nav, rpc, current_time, rload, drawn, hl, display, cpc, cload,
                   cmd, net, hist>>

ClockAdvance == Tick(MaxTime)

(* with no callbacks, the only time that passes is the loop's sleep *)
IdleClockAdvance ==
    /\ rpc = "sleep"
    /\ rsleep > 0
    /\ Tick(MaxIdleTime)

(* ----- main thread: opening the display ----- *)
TryPrimary ==
    /\ rpc = "try3C"
    /\ \E ok \in BOOLEAN :
         IF ok
         THEN device' = PrimaryAddress /\ rpc' = "time"
         ELSE device' = device /\ rpc' = "try3D"
    /\ UNCHANGED <<now, nav, current_time, rload, drawn, hl, rsleep, display,
                   cvars, net, hist>>

TryFallbackEntersLoop ==
    /\ rpc = "try3D"
    /\ \E ok \in BOOLEAN :
         IF ok
         THEN device' = FallbackAddress /\ rpc' = "time"
         ELSE device' = device /\ rpc' = "time"
    /\ UNCHANGED <<now, nav, current_time, rload, drawn, hl, rsleep, display,
                   cvars, net, hist>>

TryFallback ==
    /\ rpc = "try3D"
    /\ \E ok \in BOOLEAN :
         IF ok
         THEN device' = FallbackAddress /\ rpc' = "time"
         ELSE device' = device /\ rpc' = "returned"
    /\ UNCHANGED <<now, nav, current_time, rload, drawn, hl, rsleep, display,
                   cvars, net, hist>>

(* ----- main thread: one iteration of the loop of run(), step by step ----- *)
RenderReadTime ==
    /\ rpc = "time"
    /\ current_time' = now
    /\ rpc' = "chk_screen"
    /\ UNCHANGED <<now, nav, rload, drawn, hl, rsleep, device, display, cvars, net, hist>>

RenderCheckScreenNoExemption ==
    /\ rpc = "chk_screen"
    /\ IF auto_advance
       THEN rpc' = "chk_idle" /\ current_time' = current_time
       ELSE rpc' = "cmp0" /\ current_time' = 0
    /\ UNCHANGED <<now, nav, rload, drawn, hl, rsleep, device, display, cvars, net, hist>>

RenderCheckScreen ==
    /\ rpc = "chk_screen"
    /\ IF auto_advance /\ current_screen # 3
       THEN rpc' = "chk_idle" /\ current_time' = current_time
       ELSE rpc' = "cmp0" /\ current_time' = 0
    /\ UNCHANGED <<now, nav, rload, drawn, hl, rsleep, device, display, cvars, net, hist>>

RenderCheckIdle ==
    /\ rpc = "chk_idle"
    /\ IF IdleExpired(current_time, last_button_press)
       THEN rpc' = "load" /\ current_time' = current_time
       ELSE rpc' = "cmp0" /\ current_time' = 0
    /\ UNCHANGED <<now, nav, rload, drawn, hl, rsleep, device, display, cvars, net, hist>>

RenderLoadScreen ==
    /\ rpc = "load"
    /\ rload' = current_screen
    /\ rpc' = "store"
    /\ UNCHANGED <<now, nav, current_time, drawn, hl, rsleep, device, display, cvars, net, hist>>

RenderStoreScreen ==
    /\ rpc = "store"
    /\ current_screen' = NextPanel(rload)
    /\ net' = NextPanel(net)
    /\ rload' = 0
    /\ rpc' = "stamp"
    /\ UNCHANGED <<now, selected_command, last_button_press, current_time,
                   drawn, hl, rsleep, device, display, cvars, hist>>

RenderStamp ==
    /\ rpc = "stamp"
    /\ last_button_press' = current_time
    /\ current_time' = 0
    /\ rpc' = "cmp0"
    /\ UNCHANGED <<now, current_screen, selected_command, rload,
                   drawn, hl, rsleep, device, display, cvars, net, hist>>

ComparePc(k) ==
    IF k = 0 THEN "cmp0" ELSE IF k = 1 THEN "cmp1" ELSE IF k = 2 THEN "cmp2" ELSE "cmp3"

EntryPc(i) == IF i = 0 THEN "cmd0" ELSE "cmd1"

RenderCompare(k) ==
    /\ rpc = ComparePc(k)
    /\ IF current_screen = k
       THEN /\ drawn' = drawn \cup ScreenRoutine(k)
            /\ rpc' = IF k = 3 THEN EntryPc(0) ELSE "flush"
       ELSE /\ drawn' = drawn
            /\ rpc' = IF k = 3 THEN "flush" ELSE ComparePc(k + 1)
    /\ UNCHANGED <<now, nav, current_time, rload, hl, rsleep, device, display, cvars, net, hist>>

RenderDrawEntry(i) ==
    /\ rpc = EntryPc(i)
    /\ hl' = IF Highlighted(i, selected_command) THEN hl \cup {i} ELSE hl
    /\ rpc' = IF i + 1 < NumCommands THEN EntryPc(i + 1) ELSE "flush"
    /\ UNCHANGED <<now, nav, current_time, rload, drawn, rsleep, device, display, cvars, net, hist>>

\* leaving the canvas sends the image to the device; an exception of the
\* device is not a KeyboardInterrupt and leaves run()
RenderFlushOk ==
    /\ rpc = "flush"
    /\ drawn' = {}
    /\ hl' = {}
    /\ display' = Frame(drawn, hl)
    /\ rsleep' = LoopSleep
    /\ rpc' = "sleep"
    /\ UNCHANGED <<device, now, nav, current_time, rload, cvars, net, hist>>

RenderFlushFail ==
    /\ rpc = "flush"
    /\ drawn' = {}
    /\ hl' = {}
    /\ rpc' = "raised"
    /\ UNCHANGED <<device, now, nav, current_time, rload, rsleep, display, cvars,
                   net, hist>>

RenderFlush == RenderFlushOk \/ RenderFlushFail

RenderWake ==
    /\ rpc = "sleep"
    /\ rsleep = 0
    /\ rsleep' = 0
    /\ rpc' = "time"
    /\ UNCHANGED <<device, now, nav, current_time, rload, drawn, hl, display, cvars, net, hist>>

(* ----- main thread: Ctrl+C and the except clause of lines 334-338 ----- *)
KeyboardInterrupt ==
    /\ rpc \in LoopPcs
    /\ rpc' = "clear"
    /\ current_time' = 0
    /\ rload' = 0
    /\ drawn' = {}
    /\ hl' = {}
    /\ rsleep' = 0
    /\ UNCHANGED <<now, nav, device, display, cvars, net, hist>>

DeviceClear ==
    /\ rpc = "clear"
    /\ display' = Blank
    /\ rpc' = "cleanup"
    /\ UNCHANGED <<now, nav, current_time, rload, drawn, hl, rsleep, device,
                   cvars, net, hist>>

GpioCleanup ==
    /\ rpc = "cleanup"
    /\ rpc' = "exited"
    /\ UNCHANGED <<now, nav, current_time, rload, drawn, hl, rsleep, device,
                   display, cvars, net, hist>>

(* ----- event thread: the button callbacks, step by step ----- *)
PrevScreenLoad ==
    /\ Listening
    /\ cpc = "idle"
    /\ cload' = current_screen
    /\ cpc' = "ps_store"
    /\ UNCHANGED <<now, nav, rvars, display, cmd, csleep, net, hist>>

PrevScreenStore ==
    /\ Running
    /\ cpc = "ps_store"
    /\ current_screen' = PrevPanel(cload)
    /\ net' = PrevPanel(net)
    /\ cload' = 0
    /\ cpc' = "ps_stamp"
    /\ UNCHANGED <<now, selected_command, last_button_press, rvars, display,
                   cmd, csleep, hist>>

PrevScreenStamp ==
    /\ Running
    /\ cpc = "ps_stamp"
    /\ last_button_press' = now
    /\ cpc' = "idle"
    /\ UNCHANGED <<now, current_screen, selected_command, rvars, display,
                   cload, cmd, csleep, net, hist>>

NextScreenLoad ==
    /\ Listening
    /\ cpc = "idle"
    /\ cload' = current_screen
    /\ cpc' = "ns_store"
    /\ UNCHANGED <<now, nav, rvars, display, cmd, csleep, net, hist>>

NextScreenStore ==
    /\ Running
    /\ cpc = "ns_store"
    /\ current_screen' = NextPanel(cload)
    /\ net' = NextPanel(net)
    /\ cload' = 0
    /\ cpc' = "ns_stamp"
    /\ UNCHANGED <<now, selected_command, last_button_press, rvars, display,
                   cmd, csleep, hist>>

NextScreenStamp ==
    /\ Running
    /\ cpc = "ns_stamp"
    /\ last_button_press' = now
    /\ cpc' = "idle"
    /\ UNCHANGED <<now, current_screen, selected_command, rvars, display,
                   cload, cmd, csleep, net, hist>>

PrevCommandCheck ==
    /\ Listening
    /\ cpc = "idle"
    /\ cpc' = IF OnCommandScreen(current_screen) THEN "pc_load" ELSE "idle"
    /\ UNCHANGED <<now, nav, rvars, display, cload, cmd, csleep, net, hist>>

PrevCommandLoad ==
    /\ Running
    /\ cpc = "pc_load"
    /\ cload' = selected_command
    /\ cpc' = "pc_store"
    /\ UNCHANGED <<now, nav, rvars, display, cmd, csleep, net, hist>>

PrevCommandStore ==
    /\ Running
    /\ cpc = "pc_store"
    /\ selected_command' = PrevCommandIndex(cload)
    /\ cload' = 0
    /\ cpc' = "pc_stamp"
    /\ UNCHANGED <<now, current_screen, last_button_press, rvars, display,
                   cmd, csleep, net, hist>>

PrevCommandStamp ==
    /\ Running
    /\ cpc = "pc_stamp"
    /\ last_button_press' = now
    /\ cpc' = "idle"
    /\ UNCHANGED <<now, current_screen, selected_command, rvars, display,
                   cload, cmd, csleep, net, hist>>

NextCommandCheck ==
    /\ Listening
    /\ cpc = "idle"
    /\ cpc' = IF OnCommandScreen(current_screen) THEN "nc_load" ELSE "idle"
    /\ UNCHANGED <<now, nav, rvars, display, cload, cmd, csleep, net, hist>>

NextCommandLoad ==
    /\ Running
    /\ cpc = "nc_load"
    /\ cload' = selected_command
    /\ cpc' = "nc_store"
    /\ UNCHANGED <<now, nav, rvars, display, cmd, csleep, net, hist>>

NextCommandStore ==
    /\ Running
    /\ cpc = "nc_store"
    /\ selected_command' = NextCommandIndex(cload)
    /\ cload' = 0
    /\ cpc' = "nc_stamp"
    /\ UNCHANGED <<now, current_screen, last_button_press, rvars, display,
                   cmd, csleep, net, hist>>

NextCommandStamp ==
    /\ Running
    /\ cpc = "nc_stamp"
    /\ last_button_press' = now
    /\ cpc' = "idle"
    /\ UNCHANGED <<now, current_screen, selected_command, rvars, display,
                   cload, cmd, csleep, net, hist>>

ExecuteCheck ==
    /\ Listening
    /\ cpc = "idle"
    /\ cpc' = IF OnCommandScreen(current_screen) THEN "ex_pick" ELSE "idle"
    /\ UNCHANGED <<now, nav, rvars, display, cload, cmd, csleep, net, hist>>

ExecutePick ==
    /\ Running
    /\ cpc = "ex_pick"
    /\ cmd' = CommandAt(selected_command)
    /\ cpc' = "ex_show"
    /\ UNCHANGED <<now, nav, rvars, display, cload, csleep, net, hist>>

ExecuteShow ==
    /\ Running
    /\ cpc = "ex_show"
    /\ display' = ExecutingFrame(cmd)
    /\ cpc' = "ex_run"
    /\ UNCHANGED <<now, nav, rvars, cload, cmd, csleep, net, hist>>

ExecuteRun ==
    /\ Running
    /\ cpc = "ex_run"
    /\ \E ok \in BOOLEAN : cpc' = IF ok THEN "idle" ELSE "ex_err"
    /\ cmd' = NoCommand
    /\ UNCHANGED <<now, nav, rvars, display, cload, csleep, net, hist>>

ExecuteShowError ==
    /\ Running
    /\ cpc = "ex_err"
    /\ display' = ErrorFrame
    /\ csleep' = ErrorSleep
    /\ cpc' = "ex_sleep"
    /\ UNCHANGED <<now, nav, rvars, cload, cmd, net, hist>>

ExecuteWake ==
    /\ Running
    /\ cpc = "ex_sleep"
    /\ csleep = 0
    /\ csleep' = 0
    /\ cpc' = "idle"
    /\ UNCHANGED <<now, nav, rvars, display, cload, cmd, net, hist>>

Next ==
    \/ ClockAdvance
    \/ TryPrimary
    \/ TryFallback
    \/ KeyboardInterrupt
    \/ DeviceClear
    \/ GpioCleanup
    \/ RenderReadTime
    \/ RenderCheckScreen
    \/ RenderCheckIdle
    \/ RenderLoadScreen
    \/ RenderStoreScreen
    \/ RenderStamp
    \/ \E k \in Screens : RenderCompare(k)
    \/ \E i \in CommandIndices : RenderDrawEntry(i)
    \/ RenderFlush
    \/ RenderWake
    \/ PrevScreenLoad
    \/ PrevScreenStore
    \/ PrevScreenStamp
    \/ NextScreenLoad
    \/ NextScreenStore
    \/ NextScreenStamp
    \/ PrevCommandCheck
    \/ PrevCommandLoad
    \/ PrevCommandStore
    \/ PrevCommandStamp
    \/ NextCommandCheck
    \/ NextCommandLoad
    \/ NextCommandStore
    \/ NextCommandStamp
    \/ ExecuteCheck
    \/ ExecutePick
    \/ ExecuteShow
    \/ ExecuteRun
    \/ ExecuteShowError
    \/ ExecuteWake

Spec == Init /\ [][Next]_vars

(* ----- the same handlers, each call run from entry to return in one step ----- *)
Log(name, launched) == Append(hist, [op |-> name, ran |-> launched])

PrevScreenCall ==
    /\ Listening
    /\ cpc = "idle"
    /\ Len(hist) < MaxCalls
    /\ current_screen' = PrevPanel(current_screen)
    /\ net' = PrevPanel(net)
    /\ last_button_press' = now
    /\ hist' = Log("prev_screen", {})
    /\ UNCHANGED <<now, selected_command, rvars, display, cvars>>

NextScreenCallResetsSelection ==
    /\ Listening
    /\ cpc = "idle"
    /\ Len(hist) < MaxCalls
    /\ current_screen' = NextPanel(current_screen)
    /\ selected_command' = 0
    /\ net' = NextPanel(net)
    /\ last_button_press' = now
    /\ hist' = Log("next_screen", {})
    /\ UNCHANGED <<now, rvars, display, cvars>>

NextScreenCall ==
    /\ Listening
    /\ cpc = "idle"
    /\ Len(hist) < MaxCalls
    /\ current_screen' = NextPanel(current_screen)
    /\ net' = NextPanel(net)
    /\ last_button_press' = now
    /\ hist' = Log("next_screen", {})
    /\ UNCHANGED <<now, selected_command, rvars, display, cvars>>

PrevCommandCall ==
    /\ Listening
    /\ cpc = "idle"
    /\ Len(hist) < MaxCalls
    /\ IF OnCommandScreen(current_screen)
       THEN /\ selected_command' = PrevCommandIndex(selected_command)
            /\ last_button_press' = now
       ELSE UNCHANGED <<selected_command, last_button_press>>
    /\ hist' = Log("prev_command", {})
    /\ UNCHANGED <<now, current_screen, rvars, display, cvars, net>>

NextCommandCall ==
    /\ Listening
    /\ cpc = "idle"
    /\ Len(hist) < MaxCalls
    /\ IF OnCommandScreen(current_screen)
       THEN /\ selected_command' = NextCommandIndex(selected_command)
            /\ last_button_press' = now
       ELSE UNCHANGED <<selected_command, last_button_press>>
    /\ hist' = Log("next_command", {})
    /\ UNCHANGED <<now, current_screen, rvars, display, cvars, net>>

\* a call that ends in the except branch is left inside time.sleep(3);
\* ExecuteWake returns from it
ExecuteCall ==
    /\ Listening
    /\ cpc = "idle"
    /\ Len(hist) < MaxCalls
    /\ IF OnCommandScreen(current_screen)
       THEN /\ hist' = Log("execute_command", {CommandAt(selected_command)})
            /\ \E ok \in BOOLEAN :
                 IF ok
                 THEN /\ display' = ExecutingFrame(CommandAt(selected_command))
                      /\ UNCHANGED <<cpc, csleep>>
                 ELSE /\ display' = ErrorFrame
                      /\ cpc' = "ex_sleep"
                      /\ csleep' = ErrorSleep
       ELSE /\ hist' = Log("execute_command", {})
            /\ UNCHANGED <<display, cpc, csleep>>
    /\ UNCHANGED <<now, nav, rvars, cload, cmd, net>>

\* one iteration of the loop, left inside time.sleep(1); RenderWake returns from it
RenderTick ==
    /\ rpc = "time"
    /\ Len(hist) < MaxCalls
    /\ IF AutoAdvanceDue(current_screen, now, last_button_press)
       THEN /\ current_screen' = NextPanel(current_screen)
            /\ net' = NextPanel(net)
            /\ last_button_press' = now
       ELSE UNCHANGED <<current_screen, net, last_button_press>>
    /\ \E ok \in BOOLEAN :
         IF ok
         THEN /\ display' =
                   Frame(ScreenRoutine(current_screen'),
                         IF current_screen' = 3
                         THEN {i \in CommandIndices : Highlighted(i, selected_command)}
                         ELSE {})
              /\ rsleep' = LoopSleep
              /\ rpc' = "sleep"
         ELSE /\ display' = display
              /\ rsleep' = rsleep
              /\ rpc' = "raised"
    /\ hist' = Log("tick", {})
    /\ UNCHANGED <<device, now, selected_command, current_time, rload, drawn, hl, cvars>>

SeqNext ==
    \/ ClockAdvance
    \/ TryPrimary
    \/ TryFallback
    \/ PrevScreenCall
    \/ NextScreenCall
    \/ PrevCommandCall
    \/ NextCommandCall
    \/ ExecuteCall
    \/ ExecuteWake
    \/ RenderTick
    \/ RenderWake

SeqSpec == Init /\ [][SeqNext]_vars

(* ----- the loop alone: no button callback is registered ----- *)
RenderStep ==
    \/ RenderReadTime
    \/ RenderCheckScreen
    \/ RenderCheckIdle
    \/ RenderLoadScreen
    \/ RenderStoreScreen
    \/ RenderStamp
    \/ \E k \in Screens : RenderCompare(k)
    \/ \E i \in CommandIndices : RenderDrawEntry(i)
    \/ RenderFlushOk
    \/ RenderWake

RenderOnlyNext ==
    \/ IdleClockAdvance
    \/ TryPrimary
    \/ TryFallback
    \/ RenderStep

RenderOnlySpec ==
    /\ Init
    /\ [][RenderOnlyNext]_vars
    /\ WF_vars(IdleClockAdvance)
    /\ WF_vars(RenderStep)

(* ======================= properties ======================= *)
Ops == [i \in 1 .. Len(hist) |-> hist[i].op]

\* this step is a call of the handler `name`
CalledOp(name) == Len(hist') = Len(hist) + 1 /\ hist'[Len(hist')].op = name

LastRan == hist'[Len(hist')].ran

CycleAfter(s) == IF s = 3 THEN 0 ELSE s + 1

CycleBefore(s) == IF s = 0 THEN 3 ELSE s - 1

Flipped(c) == IF c = 0 THEN 1 ELSE 0

\* C1: under calls made one after the other, current_screen is always one of
\* 0..3; next_screen steps 0 -> 1 -> 2 -> 3 -> 0 and prev_screen steps the other
\* way (3 -> 0 and 0 -> 3 are the wraps); three next_screen calls from the
\* start state land on 3, passing 1 and 2.
C1_PanelCycle ==
    /\ [](current_screen \in {0, 1, 2, 3})
    /\ [][CalledOp("next_screen") => current_screen' = CycleAfter(current_screen)]_vars
    /\ [][CalledOp("prev_screen") => current_screen' = CycleBefore(current_screen)]_vars
    /\ [](Ops = <<"next_screen">> => current_screen = 1)
    /\ [](Ops = <<"next_screen", "next_screen">> => current_screen = 2)
    /\ [](Ops = <<"next_screen", "next_screen", "next_screen">> => current_screen = 3)

C1_Witness ==
    /\ Ops = <<"next_screen", "next_screen", "next_screen">>
    /\ current_screen = 3

\* C2: the store of the idle auto-advance (line 313) never takes
\* current_screen from 3 to another value.
C2_AutoAdvanceSparesCommands ==
    [][(rpc = "store" /\ rpc' = "stamp")
         => ~(current_screen = 3 /\ current_screen' # 3)]_vars

\* C3: next_command and prev_command leave current_screen, selected_command
\* and last_button_press unchanged when current_screen # 3; on screen 3 they
\* move selected_command by one modulo 2 and stay on screen 3, so three
\* next_command calls from index 0 give 1, 0, 1.
C3_CommandSelection ==
    /\ [][((CalledOp("next_command") \/ CalledOp("prev_command")) /\ current_screen # 3)
            => UNCHANGED nav]_vars
    /\ [][((CalledOp("next_command") \/ CalledOp("prev_command")) /\ current_screen = 3)
            => (selected_command' = Flipped(selected_command) /\ current_screen' = 3)]_vars
    /\ [](Ops = <<"prev_screen", "next_command">> => selected_command = 1)
    /\ [](Ops = <<"prev_screen", "next_command", "next_command">>
            => selected_command = 0)
    /\ [](Ops = <<"prev_screen", "next_command", "next_command", "next_command">>
            => selected_command = 1)

C3_Witness ==
    /\ Ops = <<"prev_screen", "next_command", "next_command", "next_command">>
    /\ current_screen = 3
    /\ selected_command = 1

\* C4: no advance or retreat is lost: whenever no read-modify-write of
\* current_screen is between its load and its store, current_screen is the
\* panel reached by counting every advance and retreat stored so far once.
C4_NoLostUpdate ==
    (rpc # "store" /\ cpc \notin {"ps_store", "ns_store"}) => current_screen = net

\* C5: when the canvas of a render tick is closed, exactly one of the four
\* draw routines has been called inside it.
C5_ExactlyOneRoutine ==
    rpc = "flush" => Cardinality(drawn) = 1

\* C6: under calls made one after the other, a render tick that finds
\* auto_advance set, current_screen # 3 and more than auto_advance_interval
\* since last_button_press moves current_screen to the next panel and sets
\* last_button_press to the tick's time; no tick moves the panel by more than
\* one.
C6_IdleAdvance ==
    /\ [][(/\ CalledOp("tick")
           /\ auto_advance
           /\ current_screen # 3
           /\ now - last_button_press > auto_advance_interval)
            => (/\ current_screen' = CycleAfter(current_screen)
                /\ last_button_press' = now)]_vars
    /\ [][CalledOp("tick")
            => current_screen' \in {current_screen, CycleAfter(current_screen)}]_vars

C6_Witness ==
    /\ Ops = <<"tick", "tick">>
    /\ current_screen = 1
    /\ last_button_press > auto_advance_interval

\* C7: the store of the idle auto-advance happens only while the tick's time
\* minus last_button_press exceeds auto_advance_interval.  (A callback at time
\* t leaves last_button_press = t, so this is what keeps an auto-advance from
\* taking effect at a time <= t + auto_advance_interval.)
C7_AdvanceOnlyWhenIdle ==
    [][(rpc = "store" /\ rpc' = "stamp")
         => current_time - last_button_press > auto_advance_interval]_vars

\* C8: every value the render pass can read is in range: current_screen (and
\* the copy loaded at line 313) is in 0..3, selected_command is in 0..1, and
\* the entries drawn highlighted are entries of commands.
C8_ReadsInRange ==
    /\ current_screen \in {0, 1, 2, 3}
    /\ rload \in {0, 1, 2, 3}
    /\ selected_command \in {0, 1}
    /\ hl \subseteq {0, 1}

C8_Witness ==
    /\ rpc = "cmd1"
    /\ hl = {}
    /\ selected_command = 1
    /\ cpc = "pc_stamp"

C10_TriggerStampsInteraction ==
    [][(CalledOp("execute_command") /\ current_screen = 3)
         => last_button_press' = now]_vars

\* C11: a device error while a frame is submitted is recorded, the frame
\* is skipped and later ticks still run: run() is never left by an
\* exception.
C11_LoopSurvivesSubmitFailure == rpc # "raised"

\* shutdown steps of the KeyboardInterrupt handler
InputReleased == rpc = "exited"

DisplayCleared == rpc \in {"cleanup", "exited"}

\* C12: on shutdown the input resources are released before the display
\* is cleared, the clear being the last effect: whenever the display has
\* been cleared by the handler, the GPIO has already been released.
C12_InputReleasedBeforeClear == DisplayCleared => InputReleased

\* C13: the primary address is tried first and the fallback only after
\* the primary failed; the first address that opens is the device for
\* good and the loop runs only with an open device; when both fail run()
\* returns for good without a single render tick (no auto-advance, no
\* frame, no stamp).
C13_OpenWithFallback ==
    /\ [](rpc = "try3C" => device = NoDevice)
    /\ [][device' # device => device = NoDevice]_vars
    /\ [][device' = PrimaryAddress /\ device' # device => rpc = "try3C"]_vars
    /\ [][device' = FallbackAddress /\ device' # device => rpc = "try3D"]_vars
    /\ [][rpc' = "try3D" /\ rpc # "try3D" => rpc = "try3C" /\ device' = NoDevice]_vars
    /\ [][rpc = "try3C" /\ device' = PrimaryAddress => rpc' = "time"]_vars
    /\ [][rpc = "try3D" /\ device' = FallbackAddress => rpc' = "time"]_vars
    /\ [](rpc \in LoopPcs => device \in {PrimaryAddress, FallbackAddress})
    /\ [][rpc' = "returned" /\ rpc # "returned" => rpc = "try3D"]_vars
    /\ [](rpc = "returned" =>
            /\ device = NoDevice
            /\ display = Blank
            /\ drawn = {}
            /\ current_screen = 0
            /\ last_button_press = 0)
    /\ [][rpc = "returned" => UNCHANGED vars]_vars

C13_Witness == rpc = "returned" /\ device = NoDevice /\ display = Blank

\* the command launched at line 107 has not returned yet
Executing == cpc = "ex_run"

\* C14: while the command launched by execute_command is still running, a
\* press of any navigation button can start its callback (next_screen,
\* prev_screen, next_command, prev_command) and the loop can start a tick.
C14_NavigationNotBlocked ==
    Executing =>
        /\ ENABLED NextScreenLoad
        /\ ENABLED PrevScreenLoad
        /\ ENABLED NextCommandCheck
        /\ ENABLED PrevCommandCheck
        /\ (rpc = "time" => ENABLED RenderReadTime)

\* C15: while execute_command holds the error indicator (its sleep after a
\* failed command) and the loop is running, the display shows the error
\* indicator; normal frames come back only afterwards.
C15_ErrorShownForItsDuration ==
    (cpc = "ex_sleep" /\ rpc \in LoopPcs) => display = ErrorFrame

\* C16: every frame of the Commands panel has exactly one highlighted entry:
\* when the canvas of a tick that called draw_command_screen is closed,
\* exactly one index was drawn selected.
C16_OneHighlightedEntry ==
    (rpc = "flush" /\ "command" \in drawn) => Cardinality(hl) = 1

\* C17: last_button_press never decreases: every step stores a value greater
\* than or equal to the one it replaces.
C17_StampNeverDecreases ==
    [][last_button_press' >= last_button_press]_vars

\* C18: with no button callback, every change of current_screen is a step to
\* the next panel from a panel below 3 (0 -> 1 -> 2 -> 3, never away from 3),
\* and once the loop runs current_screen eventually is 3 and stays 3.
C18_IdleCycleStopsAtCommands ==
    /\ [][current_screen' # current_screen
            => (current_screen < 3 /\ current_screen' = current_screen + 1)]_vars
    /\ [](rpc \in LoopPcs => <>[](current_screen = 3))

C18_Witness ==
    /\ current_screen = 3
    /\ now = MaxIdleTime
    /\ last_button_press = 3 * (auto_advance_interval + 1)

\* C19: under calls made one after the other, next_screen, prev_screen and
\* the render tick never modify selected_command, and no call made away from
\* the Commands panel does: index 1 selected when the panel is left is the
\* index selected when it is entered again.
C19_PanelChangeKeepsSelection ==
    /\ [][(CalledOp("next_screen") \/ CalledOp("prev_screen") \/ CalledOp("tick"))
            => selected_command' = selected_command]_vars
    /\ [][current_screen' # current_screen => selected_command' = selected_command]_vars
    /\ [][current_screen # 3 => selected_command' = selected_command]_vars
    /\ [](Ops = <<"prev_screen", "next_command", "next_screen", "prev_screen">>
            => (current_screen = 3 /\ selected_command = 1))

C19_Witness ==
    /\ Ops = <<"prev_screen", "next_command", "next_screen", "prev_screen">>
    /\ current_screen = 3
    /\ selected_command = 1

====
